---- MODULE Spec2Model ----
(***************************************************************************)
(* The lesson shop: the Vue client (Full Stack Frontend/main.js) with its  *)
(* cart and checkout, and the Express service (Full Stack                  *)
(* Backend/server.js) over the lessons and orders collections.             *)
(*                                                                         *)
(* Text is a sequence of one-character strings.  A request in flight is a  *)
(* record whose st field is 0 until the service has handled it and the     *)
(* HTTP status afterwards.  fetch resolves on any HTTP status and rejects  *)
(* only when the transport fails.                                          *)
(***************************************************************************)
EXTENDS FiniteSets, Integers, Sequences, TLC

\* ------------------------------------------------------------------ bounds
MaxSpaces == 2      \* spaces of the first lesson of the seed catalog
MaxCart == 2        \* cart entries a client holds
MaxSubmits == 1     \* submitOrder invocations of a client that pass validation
MaxTyped == 1       \* changes of the search text a user makes
MaxOrders == 2      \* orders the direct API requests create
MaxRetries == 2     \* presses of the checkout button where a checkout is repeated

\* ------------------------------------------------------------------ data
Clients == {"c1", "c2"}

\* The documents of the lessons collection when the service starts.
Catalog ==
    << [_id |-> "a", subject |-> <<"M", "a", "t", "h">>, location |-> <<"H">>,
        spaces |-> MaxSpaces],
       [_id |-> "b", subject |-> <<"A", "r", "t">>, location |-> <<"C">>,
        spaces |-> 1] >>

LessonIds == {Catalog[i]._id : i \in 1..Len(Catalog)}

\* What the user types into the checkout form and into the search box.
Names == {<<>>, <<"A", "l">>}
Phones == {<<>>, <<"0", "7">>}
Pages == {"home", "lessons", "cart"}
Queries == {<<>>, <<"m">>}

\* ------------------------------------------------------------------ text
Letters == {"A", "C", "H", "M", "a", "h", "l", "m", "r", "t"}
Whitespace == {" "}
Digits == {"0", "1", "7"}

toLowerCase(ch) ==
    CASE ch = "A" -> "a"
      [] ch = "C" -> "c"
      [] ch = "H" -> "h"
      [] ch = "M" -> "m"
      [] OTHER -> ch

\* /[A-Za-z\s]+/, without the anchors.
nameRegexUnanchored(s) == \E i \in 1..Len(s) : s[i] \in Letters \cup Whitespace

\* /^[A-Za-z\s]+$/
nameRegex(s) == Len(s) > 0 /\ \A i \in 1..Len(s) : s[i] \in Letters \cup Whitespace

\* /^\d+$/
phoneRegex(s) == Len(s) > 0 /\ \A i \in 1..Len(s) : s[i] \in Digits

\* The name test alone.
NameOnlyValid(form) == nameRegex(form.name)

isCheckoutFormValid(form) == nameRegex(form.name) /\ phoneRegex(form.phone)

\* new RegExp(query, 'i') throws a SyntaxError on a pattern that is not a
\* regular expression: here, one with an opening parenthesis (the queries of
\* the model hold no closing one).
RegExpThrows(query) == \E i \in 1..Len(query) : query[i] = "("

\* new RegExp(query, 'i') against a text: the pattern matches somewhere in the
\* text, letter case ignored; a "." of the pattern matches any character.
RegexTest(query, text) ==
    \E k \in 0..(Len(text) - Len(query)) :
        \A i \in 1..Len(query) :
            IF query[i] = "." THEN TRUE
            ELSE toLowerCase(text[k + i]) = toLowerCase(query[i])

\* ------------------------------------------------------------------ sequences
\* A findLastIndex in place of findIndex.
FindLastIndex(list, id) ==
    IF \E k \in 1..Len(list) : list[k]._id = id
    THEN CHOOSE k \in 1..Len(list) :
            list[k]._id = id /\ \A j \in (k + 1)..Len(list) : list[j]._id # id
    ELSE 0

\* Array.prototype.findIndex over the _id field: the first index, 0 when none.
FindIndex(list, id) ==
    IF \E k \in 1..Len(list) : list[k]._id = id
    THEN CHOOSE k \in 1..Len(list) :
            list[k]._id = id /\ \A j \in 1..(k - 1) : list[j]._id # id
    ELSE 0

\* Array.prototype.splice(k, 1)
Splice(list, k) == [j \in 1..(Len(list) - 1) |-> IF j < k THEN list[j] ELSE list[j + 1]]

CountOf(list, id) == Cardinality({k \in 1..Len(list) : list[k]._id = id})

IdsOf(list) == {list[k]._id : k \in 1..Len(list)}

SpacesOf(list, id) == list[FindIndex(list, id)].spaces

\* ------------------------------------------------------------------ state
VARIABLES
    store,          \* the lessons collection: a sequence of documents
    orders,         \* the orders collection: [doc, via]; via names the submit that sent doc
    lessons,        \* per client: lessons.value
    cart,           \* per client: cart.value
    checkoutForm,   \* per client: checkoutForm.value
    currentPage,    \* per client: currentPage.value
    searchQuery,    \* per client: searchQuery.value
    gets,           \* per client: the GET requests in flight, oldest first
    net,            \* the POST and PUT requests in flight
    submits,        \* per client: the submitOrder invocations awaiting a fetch
    outcome,        \* per client: how each validated submitOrder invocation ended
    called,         \* per client: the handler that last returned without any effect,
                    \* "none" once a later handler has had an effect
    loaded,         \* per client and lesson: the spaces last received from the service
    pair,           \* per client: an addToCart whose entry is followed up to its removal
    typed,          \* per client: how often the search text has changed
    reply           \* the response to the last direct API request, with its route

vars == <<store, orders, lessons, cart, checkoutForm, currentPage, searchQuery,
          gets, net, submits, outcome, called, loaded, pair, typed, reply>>

clientVars == <<lessons, cart, checkoutForm, currentPage, searchQuery, gets,
                submits, outcome, called, loaded, pair, typed>>

NoPair == [_id |-> "", before |-> 0, cnt |-> 0, pos |-> 0]

NoReply == [route |-> "", status |-> 0, body |-> <<>>]

\* ------------------------------------------------------------------ service
\* new ObjectId(lessonId) accepts a 24-digit hexadecimal string and throws a
\* BSONError on anything else; "f" is a well-formed identifier of no lesson.
WellFormedIds == LessonIds \cup {"f"}

ObjectIdValid(lessonId) == lessonId \in WellFormedIds

\* { $inc: updateData } in place of { $set: updateData }.
IncFields(doc, updateData) ==
    [f \in DOMAIN doc \cup DOMAIN updateData |->
        IF f \in DOMAIN updateData
        THEN IF f \in DOMAIN doc THEN doc[f] + updateData[f] ELSE updateData[f]
        ELSE doc[f]]

\* { $set: updateData } on one document
SetFields(doc, updateData) ==
    [f \in DOMAIN doc \cup DOMAIN updateData |->
        IF f \in DOMAIN updateData THEN updateData[f] ELSE doc[f]]

\* GET /lessons
GetLessons(st) == [status |-> 200, body |-> st]

\* GET /search?q=
GetSearch(st, query) ==
    IF query = <<>>
    THEN [status |-> 400, body |-> <<>>]
    ELSE IF RegExpThrows(query)
    THEN [status |-> 500, body |-> <<>>]
    ELSE [status |-> 200,
          body |-> SelectSeq(st, LAMBDA doc :
                       IF RegexTest(query, doc.subject) THEN TRUE
                       ELSE RegexTest(query, doc.location))]

\* POST /orders: dbOk is whether insertOne returned rather than threw.
PostOrders(ords, newOrder, via, dbOk) ==
    IF dbOk
    THEN [status |-> 201, orders |-> Append(ords, [doc |-> newOrder, via |-> via])]
    ELSE [status |-> 500, orders |-> ords]

\* updateMany({}, {$set}) in place of updateOne({_id}, {$set}).
UpdateMany(st, lessonId, updateData) ==
    [k \in 1..Len(st) |-> SetFields(st[k], updateData)]

\* updateOne({_id}, {$set}) on the collection
UpdateOne(st, lessonId, updateData) ==
    [k \in 1..Len(st) |->
        IF k = FindIndex(st, lessonId) THEN SetFields(st[k], updateData) ELSE st[k]]

\* PUT /lessons/:id: dbOk is whether updateOne returned rather than threw.
PutLessons(st, lessonId, updateData, dbOk) ==
    IF ~ObjectIdValid(lessonId) THEN [status |-> 400, store |-> st]
    ELSE IF ~dbOk THEN [status |-> 500, store |-> st]
    ELSE IF FindIndex(st, lessonId) = 0 THEN [status |-> 404, store |-> st]
    ELSE [status |-> 200, store |-> UpdateOne(st, lessonId, updateData)]

\* ------------------------------------------------------------------ client, local
Invocation(c) == Len(outcome[c]) + 1

\* spaces-- where the code has spaces++ as well.
AdjustSpacesDown(list, id, delta) ==
    [k \in 1..Len(list) |->
        IF list[k]._id = id
        THEN [list[k] EXCEPT !.spaces = list[k].spaces - 1]
        ELSE list[k]]

\* lessonInList.spaces-- / originalLesson.spaces++ on the first lesson with the id
AdjustSpaces(list, id, delta) ==
    [k \in 1..Len(list) |->
        IF k = FindIndex(list, id)
        THEN [list[k] EXCEPT !.spaces = list[k].spaces + delta]
        ELSE list[k]]

\* unshift in place of push.
Unshift(list, lesson) == <<lesson>> \o list

\* cart.value.push({ ...lesson })
Push(list, lesson) == Append(list, lesson)

\* >= in place of >.
HasSpaceOrNone(lesson) == lesson.spaces >= 0

\* if (lesson.spaces > 0)
HasSpace(lesson) == lesson.spaces > 0

\* A followed addToCart: pos is the index of its entry in the cart while the
\* entry is followed, and 0 once removeFromCart has been called on it.
Followed(p) == p.pos > 0

\* addToCart(lesson), lesson the i-th of the rendered lessons; track says
\* whether this call is the one followed up to the removal of its entry.
addToCart(c, i, track) ==
    /\ i \in 1..Len(lessons[c])
    /\ Len(cart[c]) < MaxCart
    /\ LET lesson == lessons[c][i]
           found == FindIndex(lessons[c], lesson._id) # 0
       IN IF HasSpace(lesson) /\ found
          THEN /\ cart' = [cart EXCEPT ![c] = Push(cart[c], lesson)]
               /\ lessons' = [lessons EXCEPT ![c] = AdjustSpaces(lessons[c], lesson._id, -1)]
               /\ called' = [called EXCEPT ![c] = "none"]
               /\ IF track /\ ~Followed(pair[c])
                  THEN pair' = [pair EXCEPT ![c] =
                                   [_id |-> lesson._id, before |-> lesson.spaces,
                                    cnt |-> CountOf(cart[c], lesson._id),
                                    pos |-> Len(cart[c]) + 1]]
                  ELSE pair' = pair
          ELSE /\ called' = [called EXCEPT ![c] = "addToCart:full"]
               /\ UNCHANGED <<cart, lessons, pair>>
    /\ UNCHANGED <<store, orders, checkoutForm, currentPage, searchQuery, gets, net,
                   submits, outcome, loaded, typed, reply>>

\* The followed entry after the cart entry at index k has been spliced out.
PairAfterSplice(p, k) ==
    IF ~Followed(p) \/ k = 0 \/ k > p.pos THEN p
    ELSE IF k = p.pos THEN NoPair
    ELSE [p EXCEPT !.pos = p.pos - 1]

\* removeFromCart(cartItem), cartItem the j-th entry of the rendered cart.
removeFromCart(c, j) ==
    /\ j \in 1..Len(cart[c])
    /\ LET cartItem == cart[c][j]
           cartIndex == FindIndex(cart[c], cartItem._id)
       IN /\ lessons' = [lessons EXCEPT ![c] = AdjustSpaces(lessons[c], cartItem._id, 1)]
          /\ cart' = [cart EXCEPT ![c] =
                         IF cartIndex # 0 THEN Splice(cart[c], cartIndex) ELSE cart[c]]
          /\ pair' = [pair EXCEPT ![c] =
                         IF Followed(pair[c]) /\ j = pair[c].pos
                         THEN [pair[c] EXCEPT !.pos = 0]
                         ELSE PairAfterSplice(pair[c], cartIndex)]
    /\ called' = [called EXCEPT ![c] = "none"]
    /\ UNCHANGED <<store, orders, checkoutForm, currentPage, searchQuery, gets, net,
                   submits, outcome, loaded, typed, reply>>

\* ------------------------------------------------------------------ client, catalog
\* A GET in flight: q is the search text (empty for GET /lessons), st is 0
\* until the service has answered and the HTTP status afterwards.
GetRequest(q) == [q |-> q, st |-> 0, body |-> <<>>]

\* searchLessons(query): fetchLessons() for an empty query, GET /search otherwise.
searchLessons(c, query) == Append(gets[c], GetRequest(query))

\* The user changes the search text; watch(searchQuery) calls searchLessons.
setSearchQuery(c, q) ==
    /\ q # searchQuery[c]
    /\ typed[c] < MaxTyped
    /\ typed' = [typed EXCEPT ![c] = typed[c] + 1]
    /\ searchQuery' = [searchQuery EXCEPT ![c] = q]
    /\ gets' = [gets EXCEPT ![c] = searchLessons(c, q)]
    /\ UNCHANGED <<store, orders, lessons, cart, checkoutForm, currentPage, net,
                   submits, outcome, called, loaded, pair, reply>>

\* The service answers the k-th GET of client c from the store as it is now.
serveGet(c, k) ==
    /\ k \in 1..Len(gets[c])
    /\ gets[c][k].st = 0
    /\ LET r == IF gets[c][k].q = <<>> THEN GetLessons(store)
                ELSE GetSearch(store, gets[c][k].q)
       IN gets' = [gets EXCEPT ![c][k] = [q |-> gets[c][k].q, st |-> r.status,
                                          body |-> r.body]]
    /\ UNCHANGED <<store, orders, lessons, cart, checkoutForm, currentPage,
                   searchQuery, net, submits, outcome, called, loaded, pair, typed, reply>>

\* The spaces last received for each lesson, after receiving body.
Loaded(old, body) ==
    [id \in LessonIds |->
        IF FindIndex(body, id) # 0 THEN SpacesOf(body, id) ELSE old[id]]

\* lessons.value = await response.json()
resolveGet(c, k) ==
    /\ k \in 1..Len(gets[c])
    /\ gets[c][k].st # 0
    /\ lessons' = [lessons EXCEPT ![c] = gets[c][k].body]
    /\ loaded' = [loaded EXCEPT ![c] = Loaded(loaded[c], gets[c][k].body)]
    /\ gets' = [gets EXCEPT ![c] = Splice(gets[c], k)]
    /\ pair' = [pair EXCEPT ![c] = NoPair]
    /\ UNCHANGED <<store, orders, cart, checkoutForm, currentPage, searchQuery, net,
                   submits, outcome, called, typed, reply>>

\* The transport fails: fetch rejects, the catch logs it.
rejectGet(c, k) ==
    /\ k \in 1..Len(gets[c])
    /\ gets' = [gets EXCEPT ![c] = Splice(gets[c], k)]
    /\ UNCHANGED <<store, orders, lessons, cart, checkoutForm, currentPage,
                   searchQuery, net, submits, outcome, called, loaded, pair, typed, reply>>

\* ------------------------------------------------------------------ client, form and view
\* v-model on the two inputs of the checkout form.
editName(c, name) ==
    /\ name # checkoutForm[c].name
    /\ checkoutForm' = [checkoutForm EXCEPT ![c].name = name]
    /\ UNCHANGED <<store, orders, lessons, cart, currentPage, searchQuery, gets, net,
                   submits, outcome, called, loaded, pair, typed, reply>>

editPhone(c, phone) ==
    /\ phone # checkoutForm[c].phone
    /\ checkoutForm' = [checkoutForm EXCEPT ![c].phone = phone]
    /\ UNCHANGED <<store, orders, lessons, cart, currentPage, searchQuery, gets, net,
                   submits, outcome, called, loaded, pair, typed, reply>>

\* The navigation buttons of the page set currentPage.
navigate(c, page) ==
    /\ page # currentPage[c]
    /\ currentPage' = [currentPage EXCEPT ![c] = page]
    /\ UNCHANGED <<store, orders, lessons, cart, checkoutForm, searchQuery, gets, net,
                   submits, outcome, called, loaded, pair, typed, reply>>

\* ------------------------------------------------------------------ client, checkout
\* lessons: cart.value.map(item => item._id)
OrderOf(form, items) ==
    [name |-> form.name, phone |-> form.phone,
     lessons |-> [k \in 1..Len(items) |-> items[k]._id]]

\* The reduce over the cart throws a TypeError at the first entry whose lesson
\* lessons.value.find does not find.
SpaceUpdatesThrows(items, list) == \E id \in IdsOf(items) : FindIndex(list, id) = 0

\* cart.value.reduce(...): for each identifier in the cart, the lesson's spaces now
SpaceUpdates(items, list) ==
    [id \in IdsOf(items) |-> [spaces |-> SpacesOf(list, id)]]

PostRequest(c, n, order) ==
    [c |-> c, n |-> n, method |-> "POST", lessonId |-> "", body |-> order, st |-> 0]

PutRequest(c, n, lessonId, update) ==
    [c |-> c, n |-> n, method |-> "PUT", lessonId |-> lessonId, body |-> update, st |-> 0]

\* Object.entries(spaceUpdates).map(... fetch PUT ...)
UpdateRequests(c, n, spaceUpdates) ==
    {PutRequest(c, n, id, spaceUpdates[id]) : id \in DOMAIN spaceUpdates}

\* The user presses the checkout button at most max times with a valid form.
MaySubmit(c, max) == isCheckoutFormValid(checkoutForm[c]) => Len(outcome[c]) < max

\* submitOrder(), up to its first await.  The checkout form is rendered only
\* for a cart that is not empty.
submitOrder(c) ==
    /\ Len(cart[c]) > 0
    /\ IF ~isCheckoutFormValid(checkoutForm[c])
       THEN /\ called' = [called EXCEPT ![c] = "submitOrder:invalid"]
            /\ UNCHANGED <<net, submits, outcome>>
       ELSE /\ called' = [called EXCEPT ![c] = "none"]
            /\ IF SpaceUpdatesThrows(cart[c], lessons[c])
               THEN /\ outcome' = [outcome EXCEPT ![c] = Append(outcome[c], "threw")]
                    /\ UNCHANGED <<net, submits>>
               ELSE /\ net' = net \cup {PostRequest(c, Invocation(c),
                                            OrderOf(checkoutForm[c], cart[c]))}
                    /\ submits' = [submits EXCEPT ![c] = submits[c] \cup
                                     {[n |-> Invocation(c), phase |-> "post",
                                       spaceUpdates |-> SpaceUpdates(cart[c], lessons[c]),
                                       waiting |-> {}]}]
                    /\ outcome' = [outcome EXCEPT ![c] = Append(outcome[c], "pending")]
    /\ UNCHANGED <<store, orders, lessons, cart, checkoutForm, currentPage,
                   searchQuery, gets, loaded, pair, typed, reply>>

\* The invocation of client m.c that awaits request m, as a set of none or one.
Awaiting(m) == {inv \in submits[m.c] : inv.n = m.n}

\* The service handles POST /orders.
servePost(m, dbOk) ==
    /\ m \in net /\ m.method = "POST" /\ m.st = 0
    /\ LET r == PostOrders(orders, m.body, <<m.c, m.n>>, dbOk)
       IN /\ orders' = r.orders
          /\ net' = (net \ {m}) \cup {[m EXCEPT !.st = r.status]}
    /\ UNCHANGED <<store, reply>>
    /\ UNCHANGED clientVars

\* The service handles PUT /lessons/:id.
servePut(m, dbOk) ==
    /\ m \in net /\ m.method = "PUT" /\ m.st = 0
    /\ LET r == PutLessons(store, m.lessonId, m.body, dbOk)
       IN /\ store' = r.store
          /\ net' = (net \ {m}) \cup {[m EXCEPT !.st = r.status]}
    /\ UNCHANGED <<orders, reply>>
    /\ UNCHANGED clientVars

\* The success path without currentPage.value = 'home'.
SucceedKeepView(c, inv) ==
    /\ cart' = [cart EXCEPT ![c] = <<>>]
    /\ checkoutForm' = [checkoutForm EXCEPT ![c] = [name |-> <<>>, phone |-> <<>>]]
    /\ currentPage' = currentPage
    /\ outcome' = [outcome EXCEPT ![c][inv.n] = "success"]
    /\ submits' = [submits EXCEPT ![c] = submits[c] \ {inv}]
    /\ pair' = [pair EXCEPT ![c] = NoPair]

\* After await Promise.all: alert, then reset the cart, the form and the view.
Succeed(c, inv) ==
    /\ cart' = [cart EXCEPT ![c] = <<>>]
    /\ checkoutForm' = [checkoutForm EXCEPT ![c] = [name |-> <<>>, phone |-> <<>>]]
    /\ currentPage' = [currentPage EXCEPT ![c] = "home"]
    /\ outcome' = [outcome EXCEPT ![c][inv.n] = "success"]
    /\ submits' = [submits EXCEPT ![c] = submits[c] \ {inv}]
    /\ pair' = [pair EXCEPT ![c] = NoPair]

\* A fetch of submitOrder resolves with the response, whatever its status.
resolveFetch(m) ==
    /\ m \in net /\ m.st # 0
    /\ IF Awaiting(m) = {}
       THEN /\ net' = net \ {m}
            /\ UNCHANGED <<cart, checkoutForm, currentPage, outcome, submits, pair>>
       ELSE LET inv == CHOOSE x \in Awaiting(m) : TRUE
            IN IF m.method = "POST"
               THEN /\ net' = (net \ {m}) \cup UpdateRequests(m.c, m.n, inv.spaceUpdates)
                    /\ submits' = [submits EXCEPT ![m.c] = (submits[m.c] \ {inv}) \cup
                                     {[inv EXCEPT !.phase = "puts",
                                                  !.waiting = DOMAIN inv.spaceUpdates]}]
                    /\ UNCHANGED <<cart, checkoutForm, currentPage, outcome, pair>>
               ELSE /\ net' = net \ {m}
                    /\ IF inv.waiting = {m.lessonId}
                       THEN Succeed(m.c, inv)
                       ELSE /\ submits' = [submits EXCEPT ![m.c] = (submits[m.c] \ {inv}) \cup
                                             {[inv EXCEPT !.waiting = inv.waiting \ {m.lessonId}]}]
                            /\ UNCHANGED <<cart, checkoutForm, currentPage, outcome, pair>>
    /\ UNCHANGED <<store, orders, lessons, searchQuery, gets, called, loaded, typed, reply>>

\* A fetch of submitOrder rejects (the transport failed before or after the
\* service handled the request): the catch block alerts the error.
rejectFetch(m) ==
    /\ m \in net
    /\ net' = net \ {m}
    /\ IF Awaiting(m) = {}
       THEN UNCHANGED <<outcome, submits>>
       ELSE LET inv == CHOOSE x \in Awaiting(m) : TRUE
            IN /\ outcome' = [outcome EXCEPT ![m.c][inv.n] = "error"]
               /\ submits' = [submits EXCEPT ![m.c] = submits[m.c] \ {inv}]
    /\ UNCHANGED <<store, orders, lessons, cart, checkoutForm, currentPage,
                   searchQuery, gets, called, loaded, pair, typed, reply>>

\* ------------------------------------------------------------------ direct API requests
UpdateBodies ==
    {[spaces |-> s] : s \in -1..MaxSpaces}
        \cup {[location |-> <<"X">>], [spaces |-> 0, price |-> 9]}

apiPut(lessonId, updateData, dbOk) ==
    /\ LET r == PutLessons(store, lessonId, updateData, dbOk)
       IN /\ store' = r.store
          /\ reply' = [route |-> "PUT /lessons/:id", status |-> r.status, body |-> <<>>]
    /\ UNCHANGED orders
    /\ UNCHANGED <<net>>
    /\ UNCHANGED clientVars

\* GET /search?q=query sent to the service directly.
apiSearch(query) ==
    /\ LET r == GetSearch(store, query)
       IN reply' = [route |-> "GET /search", status |-> r.status, body |-> r.body]
    /\ UNCHANGED <<store, orders, net>>
    /\ UNCHANGED clientVars

apiPost(newOrder, dbOk) ==
    /\ Len(orders) < MaxOrders
    /\ LET r == PostOrders(orders, newOrder, <<"", Len(orders) + 1>>, dbOk)
       IN /\ orders' = r.orders
          /\ reply' = [route |-> "POST /orders", status |-> r.status, body |-> <<>>]
    /\ UNCHANGED store
    /\ UNCHANGED <<net>>
    /\ UNCHANGED clientVars

\* ------------------------------------------------------------------ specifications
\* The state once the clients in started have run setup(): fetchLessons() is
\* in flight, nothing has arrived.
InitWith(started) ==
    /\ store = Catalog
    /\ orders = <<>>
    /\ lessons = [c \in Clients |-> <<>>]
    /\ cart = [c \in Clients |-> <<>>]
    /\ checkoutForm = [c \in Clients |-> [name |-> <<>>, phone |-> <<>>]]
    /\ currentPage = [c \in Clients |-> "home"]
    /\ searchQuery = [c \in Clients |-> <<>>]
    /\ gets = [c \in Clients |-> IF c \in started THEN <<GetRequest(<<>>)>> ELSE <<>>]
    /\ net = {}
    /\ submits = [c \in Clients |-> {}]
    /\ outcome = [c \in Clients |-> <<>>]
    /\ called = [c \in Clients |-> "none"]
    /\ loaded = [c \in Clients |-> [id \in LessonIds |-> -1]]
    /\ pair = [c \in Clients |-> NoPair]
    /\ typed = [c \in Clients |-> 0]
    /\ reply = NoReply

Init == InitWith({"c1"})

Network ==
    \/ \E m \in net, dbOk \in BOOLEAN : servePost(m, dbOk)
    \/ \E m \in net, dbOk \in BOOLEAN : servePut(m, dbOk)
    \/ \E m \in net : resolveFetch(m)
    \/ \E m \in net : rejectFetch(m)

Next ==
    \/ \E c \in {"c1"} :
        \/ \E i \in 1..Len(Catalog) : addToCart(c, i, FALSE)
        \/ \E j \in 1..MaxCart : removeFromCart(c, j)
        \/ (MaySubmit(c, MaxSubmits) /\ submitOrder(c))
        \/ \E q \in Queries : setSearchQuery(c, q)
        \/ \E k \in 1..(MaxTyped + 1) : serveGet(c, k)
        \/ \E k \in 1..(MaxTyped + 1) : resolveGet(c, k)
        \/ \E k \in 1..(MaxTyped + 1) : rejectGet(c, k)
        \/ \E name \in Names : editName(c, name)
        \/ \E phone \in Phones : editPhone(c, phone)
        \/ \E page \in Pages : navigate(c, page)
    \/ Network

Spec == Init /\ [][Next]_vars

\* The cart engine alone: the catalog loads, addToCart and removeFromCart.
NextCart ==
    \E c \in {"c1"} :
        \/ \E i \in 1..Len(Catalog), track \in BOOLEAN : addToCart(c, i, track)
        \/ \E j \in 1..MaxCart : removeFromCart(c, j)
        \/ \E q \in Queries : setSearchQuery(c, q)
        \/ \E k \in 1..(MaxTyped + 1) : serveGet(c, k)
        \/ \E k \in 1..(MaxTyped + 1) : resolveGet(c, k)
        \/ \E k \in 1..(MaxTyped + 1) : rejectGet(c, k)

SpecCart == Init /\ [][NextCart]_vars

\* The service alone, under requests sent to it directly.
ApiIds == WellFormedIds \cup {"zz"}

ApiOrders ==
    {OrderOf([name |-> <<"A", "l">>, phone |-> <<"0", "7">>], items) :
        items \in {<<Catalog[1]>>, <<Catalog[2], Catalog[2]>>}}

ApiQueries == {<<>>, <<"m">>, <<"M", "A">>, <<"c">>, <<"x">>, <<".">>, <<"(">>}

NextApi ==
    \/ \E lessonId \in ApiIds, updateData \in UpdateBodies, dbOk \in BOOLEAN :
            apiPut(lessonId, updateData, dbOk)
    \/ \E query \in ApiQueries : apiSearch(query)
    \/ \E newOrder \in ApiOrders, dbOk \in BOOLEAN : apiPost(newOrder, dbOk)

SpecApi == InitWith({}) /\ [][NextApi]_vars

\* Two clients that load the catalog, put the first lesson in their carts and
\* check out, over a network that delivers every request and every response.
NextRace ==
    \/ \E c \in Clients :
        \/ serveGet(c, 1)
        \/ resolveGet(c, 1)
        \/ addToCart(c, 1, FALSE)
        \/ \E name \in Names \ {<<>>} : editName(c, name)
        \/ \E phone \in Phones \ {<<>>} : editPhone(c, phone)
        \/ (MaySubmit(c, MaxSubmits) /\ submitOrder(c))
    \/ \E m \in net : servePost(m, TRUE)
    \/ \E m \in net, dbOk \in BOOLEAN : servePut(m, dbOk)
    \/ \E m \in net : resolveFetch(m)

SpecRace == InitWith(Clients) /\ [][NextRace]_vars

\* The checkout form: what the user types into it, and the checkout button.
FormNames == {<<>>, <<"A", "l">>, <<"A", " ", "l">>, <<" ">>, <<"A", "1">>, <<"7">>}

FormPhones == {<<>>, <<"0", "7">>, <<"0", "a">>, <<"l">>, <<"7", " ">>}

NextForm ==
    \E c \in {"c1"} :
        \/ serveGet(c, 1)
        \/ resolveGet(c, 1)
        \/ addToCart(c, 1, FALSE)
        \/ \E name \in FormNames : editName(c, name)
        \/ \E phone \in FormPhones : editPhone(c, phone)
        \/ (MaySubmit(c, MaxSubmits) /\ submitOrder(c))

SpecForm == Init /\ [][NextForm]_vars

\* Search as the user types, over a network that delivers every response.
NextSearch ==
    \E c \in {"c1"} :
        \/ \E q \in Queries : setSearchQuery(c, q)
        \/ \E k \in 1..(MaxTyped + 1) : serveGet(c, k)
        \/ \E k \in 1..(MaxTyped + 1) : resolveGet(c, k)
        \/ \E i \in 1..Len(Catalog) : addToCart(c, i, FALSE)
        \/ \E j \in 1..MaxCart : removeFromCart(c, j)

SpecSearch == Init /\ [][NextSearch]_vars

\* One client that puts the first lesson in its cart and presses the checkout
\* button up to MaxRetries times, over a network that can fail.
NextRetry ==
    \/ \E c \in {"c1"} :
        \/ serveGet(c, 1)
        \/ resolveGet(c, 1)
        \/ addToCart(c, 1, FALSE)
        \/ \E name \in Names \ {<<>>} : editName(c, name)
        \/ \E phone \in Phones \ {<<>>} : editPhone(c, phone)
        \/ (MaySubmit(c, MaxRetries) /\ submitOrder(c))
    \/ Network

SpecRetry == Init /\ [][NextRetry]_vars

\* ------------------------------------------------------------------ claims
\* The first index of list whose entry has the identifier id.
FirstWith(list, id) ==
    CHOOSE k \in 1..Len(list) :
        list[k]._id = id /\ \A h \in 1..(k - 1) : list[h]._id # id

\* C1: addToCart(lesson) on a lesson whose local spaces is 0 is a no-op: the
\* cart, the spaces of every lesson, the checkout form and the current view
\* are unchanged and no request is sent.
C1_AddToCartFullNoOp ==
    [][\A c \in Clients, i \in 1..Len(Catalog), track \in BOOLEAN :
        (/\ i \in 1..Len(lessons[c])
         /\ lessons[c][i].spaces = 0
         /\ addToCart(c, i, track))
        => /\ cart' = cart
           /\ lessons' = lessons
           /\ checkoutForm' = checkoutForm
           /\ currentPage' = currentPage
           /\ net' = net
           /\ gets' = gets]_vars

\* addToCart has been called on a lesson without spaces.
C1_Witness ==
    \E c \in Clients :
        /\ called[c] = "addToCart:full"
        /\ \E k \in 1..Len(lessons[c]) : lessons[c][k].spaces = 0

\* C2: addToCart(lesson) on a lesson with local spaces > 0 appends exactly
\* one entry for that lesson at the end of the cart, the entries before it
\* keeping their order, takes exactly 1 from that lesson's local spaces,
\* leaves every other lesson's spaces unchanged and sends no request.
C2_AddToCartAppends ==
    [][\A c \in Clients, i \in 1..Len(Catalog), track \in BOOLEAN :
        (/\ i \in 1..Len(lessons[c])
         /\ lessons[c][i].spaces > 0
         /\ addToCart(c, i, track))
        => /\ Len(cart'[c]) = Len(cart[c]) + 1
           /\ \A k \in 1..Len(cart[c]) : cart'[c][k] = cart[c][k]
           /\ cart'[c][Len(cart[c]) + 1]._id = lessons[c][i]._id
           /\ Len(lessons'[c]) = Len(lessons[c])
           /\ \A k \in 1..Len(lessons[c]) :
                /\ lessons'[c][k]._id = lessons[c][k]._id
                /\ lessons'[c][k].spaces =
                     lessons[c][k].spaces - (IF k = i THEN 1 ELSE 0)
           /\ net' = net
           /\ gets' = gets]_vars

\* One unit of each of two lessons is in the cart, in the order of the two
\* adds, and each add has taken 1 from its lesson's spaces.
C2_Witness ==
    \E c \in Clients :
        /\ Len(cart[c]) = 2
        /\ cart[c][1]._id # cart[c][2]._id
        /\ FindIndex(lessons[c], cart[c][2]._id) # 0
        /\ SpacesOf(lessons[c], cart[c][2]._id) = cart[c][2].spaces - 1
        /\ SpacesOf(lessons[c], cart[c][1]._id) = cart[c][1].spaces - 1

C4_AsStated ==
    [][\A c \in Clients :
        (Followed(pair[c]) /\ removeFromCart(c, pair[c].pos))
        => SpacesOf(lessons'[c], pair[c]._id) =
             pair[c].before
             - Cardinality({k \in (pair[c].pos + 1)..Len(cart[c]) :
                               cart[c][k]._id = pair[c]._id})]_vars

\* C4, amended: after an addToCart of a lesson and a later removeFromCart of
\* the added entry, with only addToCart and removeFromCart calls in between,
\* the lesson's local spaces equals its value before the add minus the net
\* number of its units added in between: the number of its entries in the
\* cart after the remove less the number before the add.
C4_AddRemoveNetZero ==
    [][\A c \in Clients :
        (Followed(pair[c]) /\ removeFromCart(c, pair[c].pos))
        => SpacesOf(lessons'[c], pair[c]._id) =
             pair[c].before - (CountOf(cart'[c], pair[c]._id) - pair[c].cnt)]_vars

\* removeFromCart has been called on a followed entry after a unit of the
\* same lesson was added in between and is still in the cart.
C4_Witness ==
    \E c \in Clients :
        /\ pair[c] # NoPair
        /\ ~Followed(pair[c])
        /\ called[c] = "none"
        /\ CountOf(cart[c], pair[c]._id) = pair[c].cnt + 1
        /\ SpacesOf(lessons[c], pair[c]._id) = pair[c].before - 1

\* The POST and PUT requests a step sends: those new in flight and not yet
\* handled by the service.
Sent == {m \in net' \ net : m.st = 0}

\* C5 as stated: submitOrder sends exactly one POST /orders per invocation
\* with a valid form, sends no PUT /lessons/:id before the POST has completed,
\* and reports success only after every PUT it sent has completed.
C5_AsStated ==
    [][/\ \A c \in Clients :
            (isCheckoutFormValid(checkoutForm[c]) /\ submitOrder(c))
            => Cardinality({m \in Sent : m.method = "POST" /\ m.c = c}) = 1
       /\ \A m \in Sent :
            m.method = "PUT"
            => \E p \in net : /\ p.method = "POST" /\ p.c = m.c /\ p.n = m.n
                              /\ p.st # 0 /\ resolveFetch(p)
       /\ \A c \in Clients, n \in 1..MaxSubmits :
            (n <= Len(outcome[c]) /\ outcome[c][n] # "success"
                                  /\ outcome'[c][n] = "success")
            => ~\E m \in net' : m.c = c /\ m.n = n]_vars

\* C6 as stated: submitOrder sends exactly one PUT /lessons/:id per distinct
\* lesson identifier in the cart, and the value sent for a lesson is its local
\* spaces at submit time, which reflects every decrement made for that
\* lesson's cart entries: the spaces last loaded less its entries in the cart.
C6_AsStated ==
    [][/\ \A c \in Clients :
            (isCheckoutFormValid(checkoutForm[c]) /\ submitOrder(c))
            => \E inv \in submits'[c] \ submits[c] :
                  /\ DOMAIN inv.spaceUpdates = IdsOf(cart[c])
                  /\ \A id \in IdsOf(cart[c]) :
                        /\ FindIndex(lessons[c], id) # 0
                        /\ inv.spaceUpdates[id].spaces = SpacesOf(lessons[c], id)
                        /\ inv.spaceUpdates[id].spaces =
                             loaded[c][id] - CountOf(cart[c], id)
       /\ \A p \in net :
            (p.method = "POST" /\ Awaiting(p) # {} /\ resolveFetch(p))
            => \A inv \in Awaiting(p) :
                  /\ {m.lessonId : m \in Sent} = DOMAIN inv.spaceUpdates
                  /\ Cardinality(Sent) = Cardinality(DOMAIN inv.spaceUpdates)
                  /\ \A m \in Sent :
                        m.method = "PUT" /\ m.body = inv.spaceUpdates[m.lessonId]]_vars

\* C7 as stated: when the POST or a PUT of a submitOrder fails (the fetch
\* rejects, or the service answers with an error status), an error is shown,
\* the cart, the form, the local lessons and the view stay as they are, and
\* no further request is sent.
C7_AsStated ==
    [][\A m \in net :
        (/\ Awaiting(m) # {}
         /\ \/ rejectFetch(m)
            \/ (m.st >= 400 /\ resolveFetch(m)))
        => /\ outcome'[m.c][m.n] = "error"
           /\ cart' = cart
           /\ checkoutForm' = checkoutForm
           /\ lessons' = lessons
           /\ currentPage' = currentPage
           /\ Sent = {}]_vars

\* C8 as stated: an order is in the orders collection only by a checkout that
\* completes successfully, and an order, once created, is never modified or
\* deleted.
C8_AsStated ==
    [][/\ \A k \in 1..Len(orders') :
            LET via == orders'[k].via
            IN outcome'[via[1]][via[2]] \in {"pending", "success"}
       /\ Len(orders') >= Len(orders)
       /\ \A k \in 1..Len(orders) : orders'[k] = orders[k]]_vars

\* C9 as stated: in every reachable state of the lessons collection every
\* lesson's spaces is >= 0, whatever PUT /lessons/:id requests the service
\* handles.
C9_AsStated == \A k \in 1..Len(store) : store[k].spaces >= 0

\* C10: the service applies a PUT /lessons/:id as an absolute overwrite: the
\* lesson's spaces becomes the value the request carries, whatever it was,
\* every other lesson is left alone, and nothing but a PUT changes the
\* collection; so after two clients' checkouts of one lesson the spaces is
\* the value of the update applied last.
C10_LastWriteWins ==
    [][/\ \A m \in net, dbOk \in BOOLEAN :
            servePut(m, dbOk)
            => IF dbOk
               THEN /\ Len(store') = Len(store)
                    /\ \A k \in 1..Len(store) :
                          /\ store'[k]._id = store[k]._id
                          /\ store'[k].spaces =
                               IF store[k]._id = m.lessonId THEN m.body.spaces
                               ELSE store[k].spaces
               ELSE store' = store
       /\ store' # store => \E m \in net, dbOk \in BOOLEAN : servePut(m, dbOk)]_vars

\* Both clients loaded the first lesson with all its spaces, one ordered one
\* unit of it and the other two, both checkouts succeeded, and the collection
\* holds what the checkout of one unit sent, not the spaces less three units.
C10_Witness ==
    /\ \A c \in Clients : outcome[c] = <<"success">> /\ loaded[c][Catalog[1]._id] = MaxSpaces
    /\ Len(orders) = 2
    /\ Len(orders[1].doc.lessons) + Len(orders[2].doc.lessons) = 3
    /\ \A k \in 1..2 : \A h \in 1..Len(orders[k].doc.lessons) :
            orders[k].doc.lessons[h] = Catalog[1]._id
    /\ net = {}
    /\ SpacesOf(store, Catalog[1]._id) = MaxSpaces - 1

\* C11: submitOrder with a form that fails validation is a no-op: no
\* POST /orders and no PUT /lessons/:id is sent, and the cart, the form, the
\* local lessons and the current view are unchanged.
C11_InvalidSubmitNoOp ==
    [][\A c \in Clients :
        (/\ ~(nameRegex(checkoutForm[c].name) /\ phoneRegex(checkoutForm[c].phone))
         /\ submitOrder(c))
        => /\ Sent = {}
           /\ net' = net
           /\ cart' = cart
           /\ checkoutForm' = checkoutForm
           /\ lessons' = lessons
           /\ currentPage' = currentPage
           /\ submits' = submits
           /\ outcome' = outcome]_vars

\* submitOrder has been called with a valid name and a phone that is not
\* valid, on a cart that is not empty, and nothing has been sent.
C11_Witness ==
    \E c \in Clients :
        /\ called[c] = "submitOrder:invalid"
        /\ nameRegex(checkoutForm[c].name)
        /\ ~phoneRegex(checkoutForm[c].phone)
        /\ Len(cart[c]) > 0
        /\ net = {}
        /\ outcome[c] = <<>>

\* A step in which a submitOrder invocation of client c reports success.
Succeeds(c) ==
    \E n \in 1..Len(outcome[c]) :
        outcome[c][n] # "success" /\ outcome'[c][n] = "success"

C13_PutMerges ==
    [][\A lessonId \in ApiIds, updateData \in UpdateBodies, dbOk \in BOOLEAN :
        apiPut(lessonId, updateData, dbOk)
        => IF lessonId \notin LessonIds \cup {"f"}
           THEN reply'.status = 400 /\ store' = store
           ELSE IF ~dbOk
           THEN reply'.status = 500 /\ store' = store
           ELSE IF lessonId \notin LessonIds
           THEN reply'.status = 404 /\ store' = store
           ELSE /\ reply'.status = 200
                /\ Len(store') = Len(store)
                /\ \A k \in 1..Len(store) :
                      IF store[k]._id = lessonId
                      THEN /\ DOMAIN store'[k] = DOMAIN store[k] \cup DOMAIN updateData
                           /\ \A f \in DOMAIN updateData : store'[k][f] = updateData[f]
                           /\ \A f \in DOMAIN store[k] \ DOMAIN updateData :
                                 store'[k][f] = store[k][f]
                      ELSE store'[k] = store[k]]_vars

\* A PUT has merged a new location into the first lesson, whose other fields
\* and the second lesson are as they were, and a later PUT for an identifier
\* of no lesson has been answered 404.
C13_Witness ==
    /\ store[1] = [Catalog[1] EXCEPT !.location = <<"X">>]
    /\ store[2] = Catalog[2]
    /\ reply.status = 404

\* q occurs in text as a substring, letter case ignored.
ContainsIgnoringCase(q, text) ==
    \E k \in 0..(Len(text) - Len(q)) :
        \A i \in 1..Len(q) : toLowerCase(text[k + i]) = toLowerCase(q[i])

\* C14 as stated: GET /search?q=<text> returns exactly the lessons whose
\* subject or location contains q as a case-insensitive substring, for every
\* q that is not empty, and answers 400 when q is absent or empty.
C14_AsStated ==
    [][\A query \in ApiQueries :
        apiSearch(query)
        => IF query = <<>>
           THEN reply'.status = 400
           ELSE /\ reply'.status = 200
                /\ reply'.body =
                     SelectSeq(store, LAMBDA doc :
                         ContainsIgnoringCase(query, doc.subject)
                             \/ ContainsIgnoringCase(query, doc.location))]_vars

\* A text that is not empty and holds only characters of the set.
NonEmptyOver(text, chars) == Len(text) > 0 /\ \A i \in 1..Len(text) : text[i] \in chars

Holds(text, chars) == \E i \in 1..Len(text) : text[i] \in chars

\* C15: the checkout form is valid exactly when the name is a non-empty
\* string of only letters and whitespace and the phone is a non-empty string
\* of only digits; a name that holds a digit and a phone that holds a letter
\* are rejected; and submitOrder goes on to the checkout only when both
\* fields are valid.
C15_FormValidity ==
    /\ [](\A c \in Clients :
            LET form == checkoutForm[c]
            IN /\ isCheckoutFormValid(form)
                    <=> (/\ NonEmptyOver(form.name, Letters \cup Whitespace)
                         /\ NonEmptyOver(form.phone, Digits))
               /\ Holds(form.name, Digits) => ~isCheckoutFormValid(form)
               /\ Holds(form.phone, Letters) => ~isCheckoutFormValid(form))
    /\ [][\A c \in Clients :
            (submitOrder(c) /\ outcome'[c] # outcome[c])
            => /\ NonEmptyOver(checkoutForm[c].name, Letters \cup Whitespace)
               /\ NonEmptyOver(checkoutForm[c].phone, Digits)]_vars

\* A checkout with a name of letters and a space and a phone of digits has
\* sent its order, and submitOrder has then refused a name that holds a digit.
C15_Witness ==
    \E c \in Clients :
        /\ \E m \in net : /\ m.method = "POST" /\ m.c = c
                          /\ m.body.name = <<"A", " ", "l">>
                          /\ m.body.phone = <<"0", "7">>
        /\ called[c] = "submitOrder:invalid"
        /\ checkoutForm[c] = [name |-> <<"A", "1">>, phone |-> <<"0", "7">>]

\* C16 as stated: in every reachable state of a client, every lesson of its
\* local list has spaces >= 0, and its spaces plus the number of cart entries
\* for it equals the spaces last loaded from the service for it, across
\* addToCart, removeFromCart, reloads and searches.
C16_AsStated ==
    \A c \in Clients : \A k \in 1..Len(lessons[c]) :
        /\ lessons[c][k].spaces >= 0
        /\ lessons[c][k].spaces + CountOf(cart[c], lessons[c][k]._id)
             = loaded[c][lessons[c][k]._id]

\* C17 as stated: in every reachable state every cart entry's lesson
\* identifier is in the client's local lesson list, and no submitOrder with a
\* valid form has ended without sending the order or showing an error.
C17_AsStated ==
    \A c \in Clients :
        /\ \A k \in 1..Len(cart[c]) : FindIndex(lessons[c], cart[c][k]._id) # 0
        /\ \A n \in 1..Len(outcome[c]) : outcome[c][n] # "threw"

\* C18 as stated: submitOrder reports success only if its order is in the
\* orders collection, and a POST or PUT answered with an error status (400,
\* 404 or 500) ends the checkout with an error, never as a success.
C18_AsStated ==
    [][/\ \A c \in Clients : \A n \in 1..Len(outcome[c]) :
            (outcome[c][n] # "success" /\ outcome'[c][n] = "success")
            => \E k \in 1..Len(orders') : orders'[k].via = <<c, n>>
       /\ \A m \in net :
            (Awaiting(m) # {} /\ m.st \in {400, 404, 500} /\ resolveFetch(m))
            => outcome'[m.c][m.n] = "error"]_vars

\* The lessons the service returns for a search text: the whole collection
\* for the empty text.
ResultFor(q) == IF q = <<>> THEN GetLessons(store).body ELSE GetSearch(store, q).body

\* C19 as stated: once every catalog request of a client has completed, its
\* lesson list holds the lessons of the result for its current search text
\* (the full catalog when the text is empty), in whatever order the responses
\* arrived; and every change of the search text sends exactly one request.
C19_AsStated ==
    /\ [](\A c \in Clients :
            (gets[c] = <<>> /\ \E id \in LessonIds : loaded[c][id] # -1)
            => IdsOf(lessons[c]) = IdsOf(ResultFor(searchQuery[c])))
    /\ [][\A c \in Clients :
            searchQuery'[c] # searchQuery[c] => Len(gets'[c]) = Len(gets[c]) + 1]_vars

\* C20 as stated: a cart is ordered at most once: of two orders in the orders
\* collection that came from one client, the earlier invocation succeeded
\* (and so cleared the cart) before the later one was sent.
C20_AsStated ==
    \A k \in 1..Len(orders) : \A h \in 1..Len(orders) :
        (/\ orders[k].via[1] = orders[h].via[1]
         /\ orders[k].via[2] < orders[h].via[2])
        => outcome[orders[k].via[1]][orders[k].via[2]] = "success"

\* The lesson identifiers of the entries of a cart, in cart order.
IdsInOrder(items) == [k \in 1..Len(items) |-> items[k]._id]

\* C21 as stated: the order a submitOrder sends lists exactly one lesson
\* identifier per cart entry, in cart order, and the entries cleared from the
\* cart when the checkout succeeds are exactly the entries listed in its
\* order, whatever was added to or removed from the cart while it waited.
C21_AsStated ==
    [][\A c \in Clients :
        /\ \A m \in Sent :
              (m.method = "POST" /\ m.c = c) => m.body.lessons = IdsInOrder(cart[c])
        /\ \A n \in 1..Len(outcome[c]) :
              (outcome[c][n] # "success" /\ outcome'[c][n] = "success")
              => \A k \in 1..Len(orders) :
                    orders[k].via = <<c, n>>
                    => orders[k].doc.lessons = IdsInOrder(cart[c])]_vars
====
